---- MODULE Spec2Model ----
(***************************************************************************)
(* Model of streamlit_app.py: the two aggregation functions                *)
(* (monthly_downloads, weekly_downloads) and the render cycle of main().   *)
(*                                                                         *)
(* Dates are day numbers counted from 2020-01-01 (day 0, a Wednesday).     *)
(* A delta is a float, modelled exactly as a record                        *)
(*   [kind |-> "num", n, d]  the rational n/d (d > 0),                     *)
(*   [kind |-> "inf", ...]   +infinity (x/0 with x > 0),                   *)
(*   [kind |-> "nan", ...]   NaN (no previous row, or 0/0).                *)
(***************************************************************************)
EXTENDS Integers, Sequences, FiniteSets, TLC

VARIABLES table, start_date, time_frame, pc, df_monthly, df_weekly,
          package_names, selected_data_streamlit, selected_data_all,
          select_packages, filtered_df, calls, error

vars == <<table, start_date, time_frame, pc, df_monthly, df_weekly,
          package_names, selected_data_streamlit, selected_data_all,
          select_packages, filtered_df, calls, error>>

(***************************************************************************)
(* Bounds of the model.                                                    *)
(***************************************************************************)
MaxRows == 3
MaxDownloads == 1
MaxSeriesLen == 3

\* Sample dates of raw rows: 2020-01-01 and 2020-01-03 (same week, same
\* month), 2020-02-10, 2020-03-03.
Days == {0, 2, 40, 62}

\* Values of the date picker that are tried: 2020-01-01 (its default),
\* 2020-01-02, 2020-02-11 and 2020-03-04 (after every sample date).
StartDates == {0, 1, 41, 63}

(***************************************************************************)
(* Program constants.                                                      *)
(***************************************************************************)
Denylist == {"shiny"}

DefaultPackages == {"streamlit", "dash", "panel", "voila"}

TimeFrames == {"weekly", "monthly"}

Projects == DefaultPackages \cup Denylist

\* Projects of the raw rows the aggregation claims are checked on.
AggProjects == {"dash", "shiny", "streamlit"}

\* ORDER BY on the project column compares strings; the rank of each name
\* in that order.
ProjectRank == [p \in Projects |->
                  CASE p = "dash" -> 1
                    [] p = "panel" -> 2
                    [] p = "shiny" -> 3
                    [] p = "streamlit" -> 4
                    [] p = "voila" -> 5]

(***************************************************************************)
(* The SQL of the two queries.                                             *)
(***************************************************************************)
\* First days of the months 2019-12 .. 2020-05, as day numbers.
MonthStarts == {-31, 0, 31, 60, 91, 121}

\* date_trunc(date, MONTH) is the first day of the date's month;
\* date_trunc(date, WEEK) is the Sunday on or before the date
\* (day -3 = 2019-12-29 is a Sunday).
date_trunc(d, part) ==
    IF part = "MONTH"
    THEN CHOOSE m \in MonthStarts :
            m <= d /\ \A k \in MonthStarts : k <= d => k <= m
    ELSE d - ((d + 3) % 7)

\* Mutant: the date condition of the WHERE clause is missing.
Where_NoDate(rows, s) ==
    {r \in rows : r.project \notin Denylist}

\* Mutant: the denylist condition of the WHERE clause is missing.
Where_NoDenylist(rows, s) ==
    {r \in rows : r.date >= s}

\* WHERE date >= '{start_date}' AND project NOT IN ('shiny')
Where(rows, s) ==
    {r \in rows : r.date >= s /\ r.project \notin Denylist}

\* Mutant: MAX(downloads) in place of SUM(downloads).
SumDownloads_Max(S) ==
    IF S = {} THEN 0
    ELSE LET r == CHOOSE x \in S : \A y \in S : y.downloads <= x.downloads
         IN  r.downloads

RECURSIVE SumDownloads(_)
SumDownloads(S) ==
    IF S = {} THEN 0
    ELSE LET r == CHOOSE x \in S : TRUE
         IN  r.downloads + SumDownloads(S \ {r})

\* SELECT date_trunc(date, part) as date, project, SUM(downloads) ...
\* GROUP BY 1,2
GroupBy(rows, part) ==
    { [date |-> k[1], project |-> k[2],
       downloads |-> SumDownloads({r \in rows :
                        date_trunc(r.date, part) = k[1] /\ r.project = k[2]})] :
      k \in {<<date_trunc(r.date, part), r.project>> : r \in rows} }

\* Mutant: ORDER BY 2,1 (project first, then date).
RowLE_ProjectFirst(x, y) ==
    \/ ProjectRank[x.project] < ProjectRank[y.project]
    \/ x.project = y.project /\ x.date <= y.date

RowLE(x, y) ==
    \/ x.date < y.date
    \/ x.date = y.date /\ ProjectRank[x.project] <= ProjectRank[y.project]

\* ORDER BY 1,2 ASC
RECURSIVE OrderBy(_)
OrderBy(S) ==
    IF S = {} THEN <<>>
    ELSE LET m == CHOOSE x \in S : \A y \in S : RowLE(x, y)
         IN  <<m>> \o OrderBy(S \ {m})

Query(rows, s, part) == OrderBy(GroupBy(Where(rows, s), part))

(***************************************************************************)
(* df["delta"] = df.groupby(["project"])["downloads"].pct_change()         *)
(*                 .fillna(0)                                              *)
(***************************************************************************)
NaN == [kind |-> "nan", n |-> 0, d |-> 0]
Inf == [kind |-> "inf", n |-> 1, d |-> 0]
Num(a, b) == [kind |-> "num", n |-> a, d |-> b]

\* Mutant: the difference cur - prev in place of the fractional change.
PctRatio_Diff(cur, prev) == Num(cur - prev, 1)

\* cur / prev - 1 in floating point, for non-negative integers.
PctRatio(cur, prev) ==
    IF prev = 0
    THEN IF cur = 0 THEN NaN ELSE Inf
    ELSE Num(cur - prev, prev)

\* Series.pct_change(): element k against element k-1, NaN for the first.
pct_change(xs) ==
    [k \in 1..Len(xs) |-> IF k = 1 THEN NaN ELSE PctRatio(xs[k], xs[k-1])]

\* Mutant: the .fillna(0) is missing.
fillna_Missing(x, v) == x

fillna(x, v) == IF x.kind = "nan" THEN v ELSE x

RECURSIVE IndicesOf(_, _, _)
IndicesOf(df, p, i) ==
    IF i > Len(df) THEN <<>>
    ELSE IF df[i].project = p
         THEN <<i>> \o IndicesOf(df, p, i + 1)
         ELSE IndicesOf(df, p, i + 1)

\* groupby(["project"]): the row indices of the group row i belongs to,
\* in frame order.
GroupOf(df, i) == IndicesOf(df, df[i].project, 1)

\* Mutant: pct_change over the whole column, without the groupby.
pct_change_Ungrouped(df) ==
    pct_change([k \in 1..Len(df) |-> df[k].downloads])

\* groupby(...)["downloads"].pct_change(): pct_change within each group,
\* the results put back at the rows' own indices.
groupby_pct_change(df) ==
    [i \in 1..Len(df) |->
        LET g  == GroupOf(df, i)
            xs == [k \in 1..Len(g) |-> df[g[k]].downloads]
            k  == CHOOSE j \in 1..Len(g) : g[j] = i
        IN  pct_change(xs)[k]]

AddDelta(df) ==
    LET pc_ == groupby_pct_change(df)
    IN  [i \in 1..Len(df) |->
            [date |-> df[i].date, project |-> df[i].project,
             downloads |-> df[i].downloads,
             delta |-> fillna(pc_[i], Num(0, 1))]]

monthly_downloads(rows, s) == AddDelta(Query(rows, s, "MONTH"))

weekly_downloads(rows, s) == AddDelta(Query(rows, s, "WEEK"))

(***************************************************************************)
(* big_query.get_data_frame_from_raw_sql either returns the result of the  *)
(* query or raises.                                                        *)
(***************************************************************************)
QueryOutcomes == {"ok", "raise"}

(***************************************************************************)
(* Data frame helpers used by main().                                      *)
(***************************************************************************)
\* df[df["project"] == p] and df[df["project"].isin(ps)]
FilterProjects(df, ps) ==
    LET Keep(r) == r.project \in ps IN SelectSeq(df, Keep)

\* df["project"].drop_duplicates()
RECURSIVE drop_duplicates(_)
drop_duplicates(names) ==
    IF names = <<>> THEN <<>>
    ELSE LET init == drop_duplicates(SubSeq(names, 1, Len(names) - 1))
             last == names[Len(names)]
         IN  IF \E i \in 1..Len(init) : init[i] = last
             THEN init ELSE Append(init, last)

ProjectColumn(df) == [i \in 1..Len(df) |-> df[i].project]

Range(f) == {f[i] : i \in DOMAIN f}

(***************************************************************************)
(* Raw tables.                                                             *)
(***************************************************************************)
AggRows == [date : Days, project : AggProjects, downloads : 0..MaxDownloads]

RECURSIVE SubsetsUpTo(_, _)
SubsetsUpTo(S, n) ==
    IF n = 0 THEN {{}}
    ELSE LET smaller == SubsetsUpTo(S, n - 1)
         IN  smaller \cup {T \cup {x} : T \in smaller, x \in S}

AggTables == SubsetsUpTo(AggRows, MaxRows)

\* Tables of the render cycle: every project has rows on none or some of
\* the sample dates.
SeriesDays(n) == {d \in Days : Cardinality({e \in Days : e < d}) < n}

RenderTables ==
    { UNION { { [date |-> d, project |-> p, downloads |-> 1] :
                d \in SeriesDays(f[p]) } : p \in Projects } :
      f \in [Projects -> 0..MaxSeriesLen] }

(***************************************************************************)
(* The render cycle: main(), lines 141-211.                                *)
(***************************************************************************)
Blank ==
    /\ df_monthly = <<>>
    /\ df_weekly = <<>>
    /\ package_names = <<>>
    /\ selected_data_streamlit = <<>>
    /\ selected_data_all = <<>>
    /\ select_packages = {}
    /\ filtered_df = <<>>
    /\ calls = <<>>
    /\ error = "none"

\* The page as first opened: the date picker at 2020-01-01, the select box
\* at its first option.
Init ==
    /\ table \in RenderTables
    /\ start_date = 0
    /\ time_frame = "weekly"
    /\ pc = "monthly"
    /\ Blank

\* The aggregation functions alone, on any table and start date.
InitAgg ==
    /\ table \in AggTables
    /\ start_date \in StartDates
    /\ time_frame = "weekly"
    /\ pc = "monthly"
    /\ Blank

\* df_monthly = monthly_downloads(start_date), the query returning.
MonthlyDownloads ==
    /\ pc = "monthly"
    /\ df_monthly' = monthly_downloads(table, start_date)
    /\ calls' = Append(calls, "monthly_downloads")
    /\ pc' = "weekly"
    /\ UNCHANGED <<table, start_date, time_frame, df_weekly, package_names,
                   selected_data_streamlit, selected_data_all,
                   select_packages, filtered_df, error>>

\* df_monthly = monthly_downloads(start_date), the query raising: nothing
\* in main() catches it.
MonthlyDownloadsRaises ==
    /\ pc = "monthly"
    /\ "raise" \in QueryOutcomes
    /\ calls' = Append(calls, "monthly_downloads")
    /\ error' = "monthly_downloads"
    /\ pc' = "error"
    /\ UNCHANGED <<table, start_date, time_frame, df_monthly, df_weekly,
                   package_names, selected_data_streamlit, selected_data_all,
                   select_packages, filtered_df>>

\* df_weekly = weekly_downloads(start_date), the query returning.
WeeklyDownloads ==
    /\ pc = "weekly"
    /\ df_weekly' = weekly_downloads(table, start_date)
    /\ calls' = Append(calls, "weekly_downloads")
    /\ pc' = "prepare"
    /\ UNCHANGED <<table, start_date, time_frame, df_monthly, package_names,
                   selected_data_streamlit, selected_data_all,
                   select_packages, filtered_df, error>>

\* Mutant: the failure is caught and an empty frame is used instead.
WeeklyDownloadsRaises_Swallowed ==
    /\ pc = "weekly"
    /\ "raise" \in QueryOutcomes
    /\ calls' = Append(calls, "weekly_downloads")
    /\ error' = "weekly_downloads"
    /\ df_weekly' = <<>>
    /\ pc' = "prepare"
    /\ UNCHANGED <<table, start_date, time_frame, df_monthly,
                   package_names, selected_data_streamlit, selected_data_all,
                   select_packages, filtered_df>>

\* df_weekly = weekly_downloads(start_date), the query raising.
WeeklyDownloadsRaises ==
    /\ pc = "weekly"
    /\ "raise" \in QueryOutcomes
    /\ calls' = Append(calls, "weekly_downloads")
    /\ error' = "weekly_downloads"
    /\ pc' = "error"
    /\ UNCHANGED <<table, start_date, time_frame, df_monthly, df_weekly,
                   package_names, selected_data_streamlit, selected_data_all,
                   select_packages, filtered_df>>

\* Lines 166-176.
Prepare ==
    /\ pc = "prepare"
    /\ package_names' = drop_duplicates(ProjectColumn(df_monthly))
    /\ selected_data_streamlit' =
          IF time_frame = "weekly"
          THEN FilterProjects(df_weekly, {"streamlit"})
          ELSE FilterProjects(df_monthly, {"streamlit"})
    /\ selected_data_all' =
          IF time_frame = "weekly" THEN df_weekly ELSE df_monthly
    /\ pc' = "single_chart"
    /\ UNCHANGED <<table, start_date, time_frame, df_monthly, df_weekly,
                   select_packages, filtered_df, calls, error>>

\* Lines 182-184.
PlotStreamlitDownloads ==
    /\ pc = "single_chart"
    /\ calls' = Append(calls, "plot_streamlit_downloads")
    /\ pc' = "multiselect"
    /\ UNCHANGED <<table, start_date, time_frame, df_monthly, df_weekly,
                   package_names, selected_data_streamlit, selected_data_all,
                   select_packages, filtered_df, error>>

\* Lines 195-200: st.multiselect(label, package_names, default=[...]).
\* It returns the default on the first run and the user's choice among the
\* options afterwards.
Multiselect ==
    /\ pc = "multiselect"
    /\ DefaultPackages \subseteq Range(package_names)
    /\ \E sel \in SUBSET Range(package_names) : select_packages' = sel
    /\ calls' = Append(calls, "multiselect")
    /\ pc' = "check"
    /\ UNCHANGED <<table, start_date, time_frame, df_monthly, df_weekly,
                   package_names, selected_data_streamlit, selected_data_all,
                   filtered_df, error>>

\* Lines 195-200: st.multiselect raises StreamlitAPIException ("Every
\* Multiselect default value must exist in options") when a default is not
\* among the options.
MultiselectRaises ==
    /\ pc = "multiselect"
    /\ ~(DefaultPackages \subseteq Range(package_names))
    /\ calls' = Append(calls, "multiselect")
    /\ error' = "multiselect"
    /\ pc' = "error"
    /\ UNCHANGED <<table, start_date, time_frame, df_monthly, df_weekly,
                   package_names, selected_data_streamlit, selected_data_all,
                   select_packages, filtered_df>>

\* Lines 204-205: if not select_packages: st.stop()
Stop ==
    /\ pc = "check"
    /\ select_packages = {}
    /\ calls' = Append(calls, "stop")
    /\ pc' = "stopped"
    /\ UNCHANGED <<table, start_date, time_frame, df_monthly, df_weekly,
                   package_names, selected_data_streamlit, selected_data_all,
                   select_packages, filtered_df, error>>

\* Mutant: the chart is built without the check of lines 204-205.
PlotAllDownloads_NoStop ==
    /\ pc = "check"
    /\ filtered_df' = FilterProjects(selected_data_all, select_packages)
    /\ calls' = Append(calls, "plot_all_downloads")
    /\ pc' = "done"
    /\ UNCHANGED <<table, start_date, time_frame, df_monthly, df_weekly,
                   package_names, selected_data_streamlit, selected_data_all,
                   select_packages, error>>

\* Lines 207-211.
PlotAllDownloads ==
    /\ pc = "check"
    /\ select_packages # {}
    /\ filtered_df' = FilterProjects(selected_data_all, select_packages)
    /\ calls' = Append(calls, "plot_all_downloads")
    /\ pc' = "done"
    /\ UNCHANGED <<table, start_date, time_frame, df_monthly, df_weekly,
                   package_names, selected_data_streamlit, selected_data_all,
                   select_packages, error>>

\* A user interaction re-runs the script from the top with the widgets'
\* new values.
Rerun ==
    /\ pc \in {"done", "stopped", "error"}
    /\ start_date' \in StartDates
    /\ time_frame' \in TimeFrames
    /\ pc' = "monthly"
    /\ df_monthly' = <<>>
    /\ df_weekly' = <<>>
    /\ package_names' = <<>>
    /\ selected_data_streamlit' = <<>>
    /\ selected_data_all' = <<>>
    /\ select_packages' = {}
    /\ filtered_df' = <<>>
    /\ calls' = <<>>
    /\ error' = "none"
    /\ UNCHANGED table

Next ==
    \/ MonthlyDownloads
    \/ MonthlyDownloadsRaises
    \/ WeeklyDownloads
    \/ WeeklyDownloadsRaises
    \/ Prepare
    \/ PlotStreamlitDownloads
    \/ Multiselect
    \/ MultiselectRaises
    \/ Stop
    \/ PlotAllDownloads
    \/ Rerun

Spec == Init /\ [][Next]_vars

NextAgg ==
    \/ MonthlyDownloads
    \/ WeeklyDownloads

SpecAgg == InitAgg /\ [][NextAgg]_vars

(***************************************************************************)
(* Vocabulary of the properties.                                           *)
(***************************************************************************)
Parts == {"MONTH", "WEEK"}

FrameOf(part) == IF part = "MONTH" THEN df_monthly ELSE df_weekly

InCalls(c) == \E i \in DOMAIN calls : calls[i] = c

CountCalls(c) == Cardinality({i \in DOMAIN calls : calls[i] = c})

\* The aggregation function of this granularity has returned its frame.
Returned(part) ==
    IF part = "MONTH"
    THEN InCalls("monthly_downloads") /\ error # "monthly_downloads"
    ELSE InCalls("weekly_downloads") /\ error # "weekly_downloads"

\* The rows of the same project in earlier buckets.
Earlier(df, r) ==
    {q \in Range(df) : q.project = r.project /\ q.date < r.date}

\* The row of the immediately preceding bucket of the same project.
Preceding(df, r) ==
    CHOOSE q \in Earlier(df, r) : \A o \in Earlier(df, r) : o.date <= q.date

IsZero(x) == x.kind = "num" /\ x.n = 0 /\ x.d > 0

\* x is the fraction cur/prev - 1, prev > 0.
IsRatio(x, cur, prev) ==
    x.kind = "num" /\ x.d > 0 /\ x.n * prev = (cur - prev) * x.d

\* The raw rows the WHERE clause lets through.
Qualifying ==
    {r \in table : r.date >= start_date /\ r.project # "shiny"}

QualifyingIn(part, bucket, project) ==
    {r \in Qualifying : r.project = project
                        /\ date_trunc(r.date, part) = bucket}

\* The sum of the downloads of a set of raw rows, by counting the rows of
\* each value.
RECURSIVE SumByValue(_, _)
SumByValue(S, v) ==
    IF v = 0 THEN 0
    ELSE v * Cardinality({r \in S : r.downloads = v}) + SumByValue(S, v - 1)

MaxValue(S) ==
    IF S = {} THEN 0
    ELSE (CHOOSE r \in S : \A q \in S : q.downloads <= r.downloads).downloads

KeyLT(x, y) ==
    \/ x.date < y.date
    \/ x.date = y.date /\ ProjectRank[x.project] < ProjectRank[y.project]

ProjectsOf(df) == {df[i].project : i \in DOMAIN df}

ChartBuilt ==
    InCalls("plot_streamlit_downloads") \/ InCalls("plot_all_downloads")

(***************************************************************************)
(* C1                                                                      *)
(***************************************************************************)
\* C1 as stated: in both frames every row that has a preceding bucket of
\* the same project has delta = downloads[t]/downloads[t-1] - 1, also when
\* the preceding sum is 0 (x/0 being +infinity for x > 0 and 0/0 having no
\* value).
C1_AsStated ==
    \A part \in Parts : \A r \in Range(FrameOf(part)) :
        Earlier(FrameOf(part), r) # {} =>
            LET prev == Preceding(FrameOf(part), r).downloads
            IN  IF prev > 0 THEN IsRatio(r.delta, r.downloads, prev)
                ELSE IF r.downloads > 0 THEN r.delta.kind = "inf"
                ELSE r.delta.kind = "nan"

\* C1 amended: delta = downloads[t]/downloads[t-1] - 1 whenever the
\* preceding bucket of the same project has a non-zero sum; when that sum
\* is 0, delta is +infinity if downloads[t] > 0 and 0 if downloads[t] = 0.
C1_Delta ==
    \A part \in Parts : \A r \in Range(FrameOf(part)) :
        Earlier(FrameOf(part), r) # {} =>
            LET prev == Preceding(FrameOf(part), r).downloads
            IN  IF prev > 0 THEN IsRatio(r.delta, r.downloads, prev)
                ELSE IF r.downloads > 0 THEN r.delta.kind = "inf"
                ELSE IsZero(r.delta)

\* A frame where a row of another project stands between a row and the
\* row of its preceding bucket, whose downloads differ from that row's.
C1_Witness ==
    \E part \in Parts : \E i \in DOMAIN FrameOf(part) :
        LET df == FrameOf(part) IN
        /\ i > 1
        /\ df[i-1].project # df[i].project
        /\ Earlier(df, df[i]) # {}
        /\ Preceding(df, df[i]).downloads > 0
        /\ df[i-1].downloads # Preceding(df, df[i]).downloads

(***************************************************************************)
(* C2                                                                      *)
(***************************************************************************)
\* C2: in both frames the row of a project's earliest bucket has delta 0,
\* not NaN, whatever rows of other projects stand before it.
C2_FirstDeltaZero ==
    \A part \in Parts : \A r \in Range(FrameOf(part)) :
        Earlier(FrameOf(part), r) = {} => IsZero(r.delta)

\* A frame where a project's earliest row comes after another project's
\* row with different downloads.
C2_Witness ==
    \E part \in Parts : \E i \in DOMAIN FrameOf(part) :
        LET df == FrameOf(part) IN
        /\ i > 1
        /\ Earlier(df, df[i]) = {}
        /\ df[i-1].downloads # df[i].downloads
        /\ df[i].downloads > 0

(***************************************************************************)
(* C3                                                                      *)
(***************************************************************************)
\* C3 as stated: every delta is a finite number greater than -1.
C3_AsStated ==
    \A part \in Parts : \A r \in Range(FrameOf(part)) :
        r.delta.kind = "num" /\ r.delta.d > 0 /\ r.delta.n > -r.delta.d

\* C3 amended: every delta is a number >= -1 or +infinity, never NaN; it
\* is -1 exactly when the downloads fall to 0 from a non-zero preceding
\* sum, and +infinity exactly when they rise from a preceding sum of 0.
C3_DeltaRange ==
    \A part \in Parts : \A r \in Range(FrameOf(part)) :
        LET df  == FrameOf(part)
            has == Earlier(df, r) # {}
        IN  /\ r.delta.kind \in {"num", "inf"}
            /\ r.delta.kind = "num" =>
                  /\ r.delta.d > 0
                  /\ r.delta.n >= -r.delta.d
                  /\ (r.delta.n = -r.delta.d) <=>
                        (has /\ r.downloads = 0
                             /\ Preceding(df, r).downloads > 0)
            /\ r.delta.kind = "inf" <=>
                  (has /\ r.downloads > 0 /\ Preceding(df, r).downloads = 0)

\* A frame with a delta of -1 and an infinite delta.
C3_Witness ==
    \E part \in Parts :
        /\ \E r \in Range(FrameOf(part)) :
              r.delta.kind = "num" /\ r.delta.n = -r.delta.d
        /\ \E r \in Range(FrameOf(part)) : r.delta.kind = "inf"

(***************************************************************************)
(* C4                                                                      *)
(***************************************************************************)
\* C4 as stated: the date of every returned row is >= the start date.
C4_AsStated ==
    \A part \in Parts : \A r \in Range(FrameOf(part)) :
        r.date >= start_date

\* C4 amended: every returned row is the bucket of at least one raw row
\* with date >= start date, and its date is >= the start of the bucket
\* that holds the start date (which may lie before the start date).
C4_FromStartDate ==
    \A part \in Parts : \A r \in Range(FrameOf(part)) :
        /\ r.date >= date_trunc(start_date, part)
        /\ \E raw \in table :
              /\ raw.date >= start_date
              /\ raw.project = r.project
              /\ date_trunc(raw.date, part) = r.date

\* Both frames returned, a raw row before the start date, and a returned
\* bucket that begins before the start date.
C4_Witness ==
    /\ Returned("MONTH") /\ Returned("WEEK")
    /\ \E raw \in table : raw.date < start_date /\ raw.project # "shiny"
    /\ \E r \in Range(df_monthly) : r.date < start_date

(***************************************************************************)
(* C7                                                                      *)
(***************************************************************************)
\* C7: both frames are sorted ascending by bucket, then by project name,
\* and without the delta column they are the rows of the query result, in
\* its order.
C7_Sorted ==
    \A part \in Parts :
        LET df == FrameOf(part) IN
        /\ \A i, j \in DOMAIN df : i < j => KeyLT(df[i], df[j])
        /\ Returned(part) =>
              [i \in DOMAIN df |->
                  [date |-> df[i].date, project |-> df[i].project,
                   downloads |-> df[i].downloads]]
                = Query(table, start_date, part)

\* A frame where a later bucket's row of a project that sorts first
\* follows an earlier bucket's row of a project that sorts later.
C7_Witness ==
    \E part \in Parts : \E i, j \in DOMAIN FrameOf(part) :
        LET df == FrameOf(part) IN
        /\ i < j
        /\ df[i].date < df[j].date
        /\ ProjectRank[df[i].project] > ProjectRank[df[j].project]
        /\ Len(df) >= 3

(***************************************************************************)
(* C8                                                                      *)
(***************************************************************************)
\* C8: a returned frame has exactly one row for every (bucket, project)
\* with a qualifying raw row, none else, and the row's downloads are the
\* sum of the downloads of the qualifying raw rows of that bucket and
\* project.
C8_OneRowPerBucket ==
    \A part \in Parts :
        LET df == FrameOf(part) IN
        Returned(part) =>
          /\ \A i, j \in DOMAIN df :
                (df[i].date = df[j].date /\ df[i].project = df[j].project)
                    => i = j
          /\ {<<df[i].date, df[i].project>> : i \in DOMAIN df}
                = {<<date_trunc(r.date, part), r.project>> : r \in Qualifying}
          /\ \A i \in DOMAIN df :
                LET rows == QualifyingIn(part, df[i].date, df[i].project)
                IN  df[i].downloads = SumByValue(rows, MaxValue(rows))

\* A returned row that sums two raw rows of different dates, next to raw
\* rows that do not qualify.
C8_Witness ==
    \E part \in Parts :
        /\ Returned(part)
        /\ \E r \in Range(FrameOf(part)) :
              /\ Cardinality({q.date : q \in
                       QualifyingIn(part, r.date, r.project)}) = 2
              /\ r.downloads = 2
        /\ table \ Qualifying # {}

(***************************************************************************)
(* C9                                                                      *)
(***************************************************************************)
\* C9: 'shiny' is in neither frame, nor among the package names offered,
\* nor in the selection, nor in the data given to either chart builder.
C9_NoDenylisted ==
    /\ "shiny" \notin ProjectsOf(df_monthly)
    /\ "shiny" \notin ProjectsOf(df_weekly)
    /\ "shiny" \notin Range(package_names)
    /\ "shiny" \notin select_packages
    /\ "shiny" \notin ProjectsOf(selected_data_streamlit)
    /\ "shiny" \notin ProjectsOf(selected_data_all)
    /\ "shiny" \notin ProjectsOf(filtered_df)

\* Both charts built from a table that has a 'shiny' row on or after the
\* start date.
C9_Witness ==
    /\ pc = "done"
    /\ filtered_df # <<>>
    /\ \E r \in table : r.project = "shiny" /\ r.date >= start_date

(***************************************************************************)
(* C5                                                                      *)
(***************************************************************************)
\* C5: when the start date is after every raw row of a table that has rows
\* and the queries return,
\* both frames are empty and the render cycle ends by the early exit on
\* the empty selection: not in an error, and without plot_all_downloads.
C5_EmptyHaltsGracefully ==
    (/\ pc \in {"done", "stopped", "error"}
     /\ error \notin {"monthly_downloads", "weekly_downloads"}
     /\ table # {}
     /\ \A r \in table : r.date < start_date)
    => /\ df_monthly = <<>>
       /\ df_weekly = <<>>
       /\ pc = "stopped"
       /\ error = "none"
       /\ ~InCalls("plot_all_downloads")

(***************************************************************************)
(* C6                                                                      *)
(***************************************************************************)
\* C6: plot_all_downloads is only ever called with a non-empty selection;
\* a render cycle whose selection is empty ends stopped by st.stop(),
\* without an error.
C6_EmptySelectionStops ==
    /\ InCalls("plot_all_downloads") => select_packages # {}
    /\ (pc \in {"done", "stopped"} /\ select_packages = {}) =>
          /\ pc = "stopped"
          /\ error = "none"
          /\ calls[Len(calls)] = "stop"
    /\ pc = "stopped" => select_packages = {}

\* A render cycle stopped on an empty selection although packages were
\* offered.
C6_Witness ==
    /\ pc = "stopped"
    /\ select_packages = {}
    /\ DefaultPackages \subseteq Range(package_names)

(***************************************************************************)
(* C10                                                                     *)
(***************************************************************************)
\* C10: after a query has raised, the render cycle is in the error state,
\* the query was issued once, its frame is empty and no chart builder has
\* been called; and a chart builder is only ever called after both queries
\* were issued.
C10_QueryFailureFatal ==
    /\ error = "monthly_downloads" =>
          /\ pc = "error"
          /\ CountCalls("monthly_downloads") = 1
          /\ ~InCalls("weekly_downloads")
          /\ df_monthly = <<>> /\ df_weekly = <<>>
          /\ ~ChartBuilt
    /\ error = "weekly_downloads" =>
          /\ pc = "error"
          /\ CountCalls("weekly_downloads") = 1
          /\ CountCalls("monthly_downloads") = 1
          /\ df_weekly = <<>>
          /\ ~ChartBuilt
    /\ \A i \in DOMAIN calls :
          calls[i] \in {"plot_streamlit_downloads", "plot_all_downloads"} =>
              /\ \E j \in 1..(i-1) : calls[j] = "monthly_downloads"
              /\ \E j \in 1..(i-1) : calls[j] = "weekly_downloads"

\* The weekly query raising in a cycle that shows the monthly data.
C10_Witness ==
    /\ error = "weekly_downloads"
    /\ time_frame = "monthly"
    /\ df_monthly # <<>>

====
